---- MODULE Spec2Model ----
(***************************************************************************)
(* The asynchronous record-processing pipeline of the SEO optimizer:       *)
(* the three Celery stages of apps/seo_app/tasks/seo_tasks.py, the record  *)
(* tables of apps/seo_app/models.py, the create endpoints that enqueue the *)
(* first stage, and the Scoring Engine (SEOAnalyzer) the stages call.      *)
(*                                                                         *)
(* Conventions.  A Python string is a sequence of symbols: one-character   *)
(* strings, plus markup symbols such as "<h1>" for the tags of a cleaned   *)
(* HTML page.  None is the empty set and a present value v is {v}.  A      *)
(* number rounded to two decimals is kept as an integer count of           *)
(* hundredths (66.67 is 6667).                                             *)
(***************************************************************************)
EXTENDS Integers, Sequences, FiniteSets, Bags, TLC

\* ------------------------------------------------------------------ bounds
MaxRecords   == 1   \* records created, both tables together
MaxRedeliver == 1   \* duplicate deliveries made by the task transport
MaxTime      == 2   \* last value of the wall clock
MaxWorkers   == 2   \* stage executions in flight together
MaxContentLen == 5  \* symbols of a content handed to the Scoring Engine

\* ------------------------------------------------------- program constants
max_retries == 3

\* ------------------------------------------------------------ Python values
None == {}
Some(v) == {v}
IsNone(o) == o = {}
Val(o) == CHOOSE v \in o : TRUE

\* ------------------------------------------------------------------ strings
Space == " "

Whitespace == {Space}

Tags == {"<h1>", "</h1>", "<h2>", "</h2>", "<h3>", "</h3>", "<p>", "</p>",
         "<meta>"}

Terminators == {".", "!", "?"}

IsSpace(c) == c \in Whitespace

IsTag(c) == c \in Tags

LowerChar(c) == IF c = "A" THEN "a" ELSE IF c = "B" THEN "b" ELSE c

lower(s) == [i \in 1..Len(s) |-> LowerChar(s[i])]

RECURSIVE lstrip(_)
lstrip(s) == IF s # <<>> /\ IsSpace(Head(s)) THEN lstrip(Tail(s)) ELSE s

RECURSIVE rstrip(_)
rstrip(s) ==
    IF s # <<>> /\ IsSpace(s[Len(s)]) THEN rstrip(SubSeq(s, 1, Len(s) - 1)) ELSE s

strip(s) == rstrip(lstrip(s))

\* The pieces of s between the symbols of seps, empty pieces included; cur
\* is the piece being read.
RECURSIVE Pieces(_, _, _)
Pieces(s, seps, cur) ==
    IF s = <<>> THEN <<cur>>
    ELSE IF Head(s) \in seps THEN <<cur>> \o Pieces(Tail(s), seps, <<>>)
    ELSE Pieces(Tail(s), seps, Append(cur, Head(s)))

NonEmpty(ps) == SelectSeq(ps, LAMBDA p : p # <<>>)

\* str.split(): the whitespace-delimited tokens.
split(s) == NonEmpty(Pieces(s, Whitespace, <<>>))

RECURSIVE JoinSpace(_)
JoinSpace(ps) ==
    IF ps = <<>> THEN <<>>
    ELSE IF Len(ps) = 1 THEN ps[1]
    ELSE ps[1] \o <<Space>> \o JoinSpace(Tail(ps))

\* round(num / den, 2) in hundredths, ties to even as Python rounds.
Round2(num, den) ==
    LET n == 100 * num
        q == n \div den
        r == n % den
    IN  IF 2 * r < den THEN q
        ELSE IF 2 * r > den THEN q + 1
        ELSE IF q % 2 = 0 THEN q ELSE q + 1

RECURSIVE SumSeq(_)
SumSeq(s) == IF s = <<>> THEN 0 ELSE Head(s) + SumSeq(Tail(s))

CountEq(s, x) == Cardinality({i \in 1..Len(s) : s[i] = x})

RECURSIVE Pow2(_)
Pow2(n) == IF n = 0 THEN 1 ELSE 2 * Pow2(n - 1)

\* ----------------------------------------------------------- Scoring Engine
VALID_INPUT_TYPES == {"html", "content"}

SEVERITY_PENALTIES == [low |-> 3, medium |-> 7, high |-> 15]

ISSUE_DEFINITIONS ==
    [no_h1_tag                |-> [severity |-> "high"],
     missing_meta_description |-> [severity |-> "medium"],
     keyword_density_low      |-> [severity |-> "medium"],
     keyword_density_high     |-> [severity |-> "medium"],
     missing_subheadings      |-> [severity |-> "low"],
     readability_poor         |-> [severity |-> "medium"]]

\* The input kinds a caller may pass; "" stands for the falsy ones.
InputTypes == {"", "html", "content", "HTML", " Content ", "invalid"}

\* input_type.lower().strip() on these kinds.
input_type_lower_strip(input_type) ==
    CASE input_type = "HTML" -> "html"
      [] input_type = " Content " -> "content"
      [] OTHER -> input_type

\* SEOAnalyzerError with the keyword tested before the content.
SEOAnalyzerError_keyword_first(content, target_keyword, input_type) ==
    IF IsNone(target_keyword) \/ Val(target_keyword) = <<>>
            \/ strip(Val(target_keyword)) = <<>>
        THEN "target_keyword"
    ELSE IF IsNone(content) \/ Val(content) = <<>> \/ strip(Val(content)) = <<>>
        THEN "content"
    ELSE IF input_type = ""
            \/ input_type_lower_strip(input_type) \notin VALID_INPUT_TYPES
        THEN "input_type"
    ELSE "none"

\* SEOAnalyzer.__init__: the ValueError it raises, "none" when it raises none.
\* content and target_keyword are optional strings.
SEOAnalyzerError(content, target_keyword, input_type) ==
    IF IsNone(content) \/ Val(content) = <<>> \/ strip(Val(content)) = <<>>
        THEN "content"
    ELSE IF IsNone(target_keyword) \/ Val(target_keyword) = <<>>
            \/ strip(Val(target_keyword)) = <<>>
        THEN "target_keyword"
    ELSE IF input_type = ""
            \/ input_type_lower_strip(input_type) \notin VALID_INPUT_TYPES
        THEN "input_type"
    ELSE "none"

\* SEOAnalyzer storing the keyword as it was given.
SEOAnalyzer_keeps_keyword(content, target_keyword, input_type) ==
    [content        |-> Val(content),
     target_keyword |-> Val(target_keyword),
     input_type     |-> input_type_lower_strip(input_type)]

\* The instance __init__ builds once its checks pass.
SEOAnalyzer(content, target_keyword, input_type) ==
    [content        |-> Val(content),
     target_keyword |-> lower(strip(Val(target_keyword))),
     input_type     |-> input_type_lower_strip(input_type)]

\* BeautifulSoup text nodes: the runs of characters between markup symbols.
TextNodes(s) == Pieces(s, Tags, <<>>)

\* soup.get_text(separator=" ", strip=True)
SoupText(s) == JoinSpace(NonEmpty([i \in 1..Len(TextNodes(s)) |-> strip(TextNodes(s)[i])]))

get_text_only(self) ==
    IF self.input_type = "html" THEN SoupText(self.content) ELSE self.content

count_words(self) == Len(split(get_text_only(self)))

\* calculate_keyword_density comparing the words as they are written.
calculate_keyword_density_case_sensitive(self) ==
    LET words == split(get_text_only(self))
    IN  IF words = <<>> THEN 0
        ELSE Round2(100 * CountEq(words, self.target_keyword), Len(words))

\* calculate_keyword_density counting the places of the text where the
\* keyword begins (str.count of the text) instead of the equal words.
calculate_keyword_density_substring(self) ==
    LET text  == lower(get_text_only(self))
        words == split(text)
        k     == Len(self.target_keyword)
        hits  == {i \in 1..(Len(text) - k + 1) :
                     SubSeq(text, i, i + k - 1) = self.target_keyword}
    IN  IF words = <<>> THEN 0
        ELSE Round2(100 * Cardinality(hits), Len(words))

\* calculate_keyword_density counting the places where the words of the
\* keyword follow one another in the text.
calculate_keyword_density_phrase(self) ==
    LET words == split(lower(get_text_only(self)))
        key   == split(self.target_keyword)
        k     == Len(key)
        hits  == {i \in 1..(Len(words) - k + 1) : SubSeq(words, i, i + k - 1) = key}
    IN  IF words = <<>> THEN 0
        ELSE Round2(100 * Cardinality(hits), Len(words))

calculate_keyword_density(self) ==
    LET words == split(lower(get_text_only(self)))
    IN  IF words = <<>> THEN 0
        ELSE Round2(100 * CountEq(words, self.target_keyword), Len(words))

average_sentence_length(self) ==
    LET parts     == NonEmpty(Pieces(get_text_only(self), Terminators, <<>>))
        sentences == NonEmpty([i \in 1..Len(parts) |-> strip(parts[i])])
    IN  IF sentences = <<>> THEN 0
        ELSE Round2(SumSeq([i \in 1..Len(sentences) |-> Len(split(sentences[i]))]),
                    Len(sentences))

\* Text of the elements opened by `open` and closed by `close`, in order.
RECURSIVE ElementTexts(_, _, _)
ElementTexts(s, open, close) ==
    IF s = <<>> THEN <<>>
    ELSE IF Head(s) = open
        THEN LET rest == Tail(s)
                 ends == {i \in 1..Len(rest) : rest[i] = close}
                 stop == IF ends = {} THEN Len(rest) + 1
                         ELSE CHOOSE i \in ends : \A j \in ends : i <= j
                 body == SubSeq(rest, 1, stop - 1)
             IN  <<strip(SelectSeq(body, LAMBDA c : ~IsTag(c)))>>
                     \o ElementTexts(SubSeq(rest, stop, Len(rest)), open, close)
    ELSE ElementTexts(Tail(s), open, close)

\* {} for plain content, as the empty function.
extract_headings(self) ==
    IF self.input_type # "html" THEN [k \in {} |-> <<>>]
    ELSE [h1 |-> ElementTexts(self.content, "<h1>", "</h1>"),
          h2 |-> ElementTexts(self.content, "<h2>", "</h2>"),
          h3 |-> ElementTexts(self.content, "<h3>", "</h3>")]

\* "<meta>" is a description meta tag with a non-empty content attribute.
check_meta_description(self) ==
    IF self.input_type # "html" THEN None
    ELSE Some(\E i \in 1..Len(self.content) : self.content[i] = "<meta>")

\* generate_issues_with, the bounds of the density rules included.
generate_issues_inclusive(density, input_type, headings, has_meta, readability) ==
    LET found ==
            (IF density <= 50 THEN {"keyword_density_low"}
             ELSE IF density >= 500 THEN {"keyword_density_high"} ELSE {})
            \cup (IF input_type = "html"
                  THEN (IF headings.h1 = <<>> THEN {"no_h1_tag"} ELSE {})
                       \cup (IF ~Val(has_meta)
                             THEN {"missing_meta_description"} ELSE {})
                       \cup (IF headings.h2 = <<>> /\ headings.h3 = <<>>
                             THEN {"missing_subheadings"} ELSE {})
                  ELSE {})
            \cup (IF readability < 5000 THEN {"readability_poor"} ELSE {})
    IN  [k \in found |-> ISSUE_DEFINITIONS[k]]

\* generate_issues_with, the two density rules tested one after the other
\* with their thresholds exchanged.
generate_issues_swapped(density, input_type, headings, has_meta, readability) ==
    LET found ==
            (IF density < 500 THEN {"keyword_density_low"} ELSE {})
            \cup (IF density > 50 THEN {"keyword_density_high"} ELSE {})
            \cup (IF input_type = "html"
                  THEN (IF headings.h1 = <<>> THEN {"no_h1_tag"} ELSE {})
                       \cup (IF ~Val(has_meta)
                             THEN {"missing_meta_description"} ELSE {})
                       \cup (IF headings.h2 = <<>> /\ headings.h3 = <<>>
                             THEN {"missing_subheadings"} ELSE {})
                  ELSE {})
            \cup (IF readability < 5000 THEN {"readability_poor"} ELSE {})
    IN  [k \in found |-> ISSUE_DEFINITIONS[k]]

\* The body of generate_issues, given what calculate_keyword_density,
\* extract_headings, check_meta_description and calculate_readability
\* return (hundredths for the density and the reading ease).  The headings
\* and the meta description are read for HTML input only.
generate_issues_with(density, input_type, headings, has_meta, readability) ==
    LET found ==
            (IF density < 50 THEN {"keyword_density_low"}
             ELSE IF density > 500 THEN {"keyword_density_high"} ELSE {})
            \cup (IF input_type = "html"
                  THEN (IF headings.h1 = <<>> THEN {"no_h1_tag"} ELSE {})
                       \cup (IF ~Val(has_meta)
                             THEN {"missing_meta_description"} ELSE {})
                       \cup (IF headings.h2 = <<>> /\ headings.h3 = <<>>
                             THEN {"missing_subheadings"} ELSE {})
                  ELSE {})
            \cup (IF readability < 5000 THEN {"readability_poor"} ELSE {})
    IN  [k \in found |-> ISSUE_DEFINITIONS[k]]

\* readability is round(textstat.flesch_reading_ease(text), 2) of this
\* instance, in hundredths.
generate_issues(self, readability) ==
    generate_issues_with(calculate_keyword_density(self), self.input_type,
                         extract_headings(self), check_meta_description(self),
                         readability)

Max(a, b) == IF a >= b THEN a ELSE b
Min(a, b) == IF a <= b THEN a ELSE b

\* The loop of calculate_mock_seo_score over the keys of the issue map: the
\* severity is looked up in ISSUE_DEFINITIONS by the key, "low" for a key
\* that is not there; what the map holds under the key is not read.
RECURSIVE Penalties(_, _)
Penalties(issues, keys) ==
    IF keys = {} THEN 0
    ELSE LET issue_key == CHOOSE k \in keys : TRUE
             severity  == IF issue_key \in DOMAIN ISSUE_DEFINITIONS
                          THEN ISSUE_DEFINITIONS[issue_key].severity
                          ELSE "low"
         IN  SEVERITY_PENALTIES[severity] + Penalties(issues, keys \ {issue_key})

\* calculate_mock_seo_score_with leaving out the keys ISSUE_DEFINITIONS
\* does not have.
calculate_mock_seo_score_known_only(issues) ==
    Max(0, Min(100, 100 - Penalties(issues, DOMAIN issues
                                                \cap DOMAIN ISSUE_DEFINITIONS)))

\* calculate_mock_seo_score_with adding the penalties, with no clamp.
calculate_mock_seo_score_adds(issues) ==
    100 + Penalties(issues, DOMAIN issues)

\* The body of calculate_mock_seo_score, given what generate_issues returns.
calculate_mock_seo_score_with(issues) ==
    Max(0, Min(100, 100 - Penalties(issues, DOMAIN issues)))

calculate_mock_seo_score(self, readability) ==
    calculate_mock_seo_score_with(generate_issues(self, readability))

analyze(self, readability) ==
    [input_type           |-> self.input_type,
     word_count           |-> count_words(self),
     keyword_density      |-> calculate_keyword_density(self),
     headings             |-> extract_headings(self),
     has_meta_description |-> check_meta_description(self),
     readability_score    |-> readability,
     avg_sentence_length  |-> average_sentence_length(self),
     seo_score            |-> calculate_mock_seo_score(self, readability),
     issues               |-> generate_issues(self, readability)]

\* ---------------------------------------------------------- Content Fetcher
\* Markup of a served page that is no markup of the Scoring Engine's texts.
RawTags == Tags \cup {"<script>", "</script>", "<div>", "</div>"}

\* allowed_tags, as far as pages use them.
allowed_tags == {"<p>", "</p>", "<h1>", "</h1>", "<h2>", "</h2>", "<h3>", "</h3>"}

\* tag.decompose() of every script element: the element goes with all it
\* holds.
RECURSIVE decompose(_, _)
decompose(s, inside) ==
    IF s = <<>> THEN <<>>
    ELSE IF Head(s) = "<script>" THEN decompose(Tail(s), TRUE)
    ELSE IF Head(s) = "</script>" THEN decompose(Tail(s), FALSE)
    ELSE IF inside THEN decompose(Tail(s), TRUE)
    ELSE <<Head(s)>> \o decompose(Tail(s), FALSE)

\* The markup a tag outside the whitelist leaves behind once unwrapped: none.
unwrap(s, kept) == SelectSeq(s, LAMBDA c : c \notin RawTags \/ c \in kept)

\* " ".join(cleaned_html.split())
join_split(s) == JoinSpace(split(s))

\* extract_html with meta in the whitelist.
extract_html_keeps_meta(text) ==
    join_split(unwrap(decompose(text, FALSE), allowed_tags \cup {"<meta>"}))

\* extract_html once requests.get returned: the cleaned markup of
\* response.text.
extract_html(text) == join_split(unwrap(decompose(text, FALSE), allowed_tags))

\* ------------------------------------------------------------------- inputs
Keyword == <<"a">>

PlainContent == <<"a", " ", "b", ".", " ", "A">>

Url == <<"u">>

\* response.text of the pages the URL may serve: an empty response, and a
\* page with a description meta tag, a script, and a div around a heading
\* and a paragraph.
BlankPage == <<>>
MetaPage ==
    <<"<meta>", "<script>", "b", "</script>", "<div>", "<h1>", "a", "</h1>",
      "<p>", "a", " ", " ", "b", ".", "</p>", "</div>", " ">>
RawPages == {BlankPage, MetaPage}

\* What extract_html returns for them.
EmptyPage == extract_html(BlankPage)
CleanedPage == extract_html(MetaPage)
FetchedPages == {extract_html(page) : page \in RawPages}

\* Five words, twelve characters: passes validate_content.
OptContent == <<"a", "a", " ", "b", " ", "a", " ", "b", "b", " ", "a", "a">>

Rewrite1 == <<"a", " ", "b">>
Rewrite2 == <<"b", " ", "a", " ", "a">>

\* What _send_request can return: parsed JSON with both keys, the second a
\* list; the first may be any JSON value, here a text, an empty or blank
\* text, or null.
RewriteResults ==
    {[optimized_content |-> Some(Rewrite1),  improvements_done |-> <<"A", "B">>],
     [optimized_content |-> Some(Rewrite2),  improvements_done |-> <<"B", "A">>],
     [optimized_content |-> Some(<<>>),      improvements_done |-> <<>>],
     [optimized_content |-> Some(<<Space>>), improvements_done |-> <<>>],
     [optimized_content |-> None,            improvements_done |-> <<>>]}

\* Values of round(textstat.flesch_reading_ease(text), 2), in hundredths.
ReadabilityValues == {0, 7000}

\* What analyze_content_task can hand to SEOAnalyzer once its checks pass:
\* <<content, target_keyword, input_type>>.
AnalyzedInputs ==
    {<<PlainContent, Keyword, "content">>, <<CleanedPage, Keyword, "html">>}

\* analyzer.analyze() for each of these inputs and each reading ease,
\* computed once.
AnalysisData ==
    [in \in AnalyzedInputs |->
        [readability \in ReadabilityValues |->
            analyze(SEOAnalyzer(Some(in[1]), Some(in[2]), in[3]), readability)]]

\* Request bodies; None is a key the body does not have.
AnalysisPayloads ==
    {[url |-> u, content |-> c, target_keyword |-> Keyword] :
        u \in {None, Some(Url)},
        c \in {None, Some(<<>>), Some(<<Space>>), Some(PlainContent)}}

OptimizationPayloads ==
    {[content |-> c, target_keyword |-> Keyword, target_length |-> 500,
      tone |-> "professional"] : c \in {OptContent, Rewrite1}}

\* -------------------------------------------------------------------- state
VARIABLES
    analysis,      \* AnalysisRecord table: id -> row
    optimization,  \* OptimizationRecord table: id -> row
    nextId,        \* rows created so far, per table
    queue,         \* bag of task messages held by the broker
    running,       \* bag of stage executions between load and end
    now,           \* wall clock
    redelivered,   \* duplicate deliveries made so far
    flesch,        \* textstat's reading ease of the text of each input
    lastEvent,     \* what the last step of a stage handler did
    lastCall,      \* the last direct call of a Scoring Engine method
    posting        \* create requests between their commit and their enqueue

vars == <<analysis, optimization, nextId, queue, running, now, redelivered,
          flesch, lastEvent, lastCall, posting>>

ANALYZE == "analyze_content_task"
OPTIMIZE_AFTER == "optimize_after_analysis_task"
OPTIMIZE == "optimize_content_task"

TaskNames == {ANALYZE, OPTIMIZE_AFTER, OPTIMIZE}

Terminal == {"completed", "failed"}

Message(name, record_id, retries, countdown) ==
    [name |-> name, record_id |-> record_id, retries |-> retries,
     countdown |-> countdown]

\* task.delay(record_id)
delay(name, record_id) == Message(name, record_id, 0, 0)

\* lastEvent: the message handled, how the step ended ("notfound" and "started"
\* for the lookup; "ok", "retry" (Retry raised), "raised" (the exception left
\* the handler) and "failed" for the rest of the handler), the exception of
\* the try block, the collaborators called and the rewrite result received.
NoEvent ==
    [name |-> "none", record_id |-> 0, retries |-> 0, outcome |-> "none",
     error |-> "none", calls |-> {}, results |-> None, request |-> None]

Event(m, outcome, error, calls, results) ==
    [name |-> m.name, record_id |-> m.record_id, retries |-> m.retries,
     outcome |-> outcome, error |-> error, calls |-> calls, results |-> results,
     request |-> None]

\* lastCall while no Scoring Engine method was called directly.
NoCall == [method |-> "none", args |-> <<>>, result |-> None]

Put(table, id, row) ==
    [k \in DOMAIN table \cup {id} |-> IF k = id THEN row ELSE table[k]]

Remove(table, id) == [k \in DOMAIN table \ {id} |-> table[k]]

\* BaseRecord / AnalysisRecord defaults at objects.create.
NewAnalysisRecord(url, content, target_keyword, created_at) ==
    [status |-> "processing", input_content |-> content,
     target_keyword |-> target_keyword, optimized_imporvements |-> None,
     optimized_content |-> None, processing_time |-> None,
     created_at |-> created_at, completed_at |-> None, input_url |-> url,
     seo_score |-> None, word_count |-> None, keyword_density |-> None,
     avg_sentence_length |-> None, readability_score |-> None, issues |-> None]

NewOptimizationRecord(content, target_keyword, target_length, tone, created_at) ==
    [status |-> "processing", input_content |-> Some(content),
     target_keyword |-> target_keyword, optimized_imporvements |-> None,
     optimized_content |-> None, processing_time |-> None,
     created_at |-> created_at, completed_at |-> None,
     target_length |-> target_length, tone |-> tone,
     optimized_keyword_denisty |-> None]

Init ==
    /\ analysis = <<>>
    /\ optimization = <<>>
    /\ nextId = [analysis |-> 1, optimization |-> 1]
    /\ queue = EmptyBag
    /\ running = EmptyBag
    /\ now = 1
    /\ redelivered = 0
    /\ flesch \in [AnalyzedInputs -> ReadabilityValues]
    /\ lastEvent = NoEvent
    /\ lastCall = NoCall
    /\ posting = {}

\* ------------------------------------------------------------ create views
Truthy(o) == ~IsNone(o) /\ Val(o) # <<>>

\* An optional CharField or URLField: absent, or a text that is not blank
\* once trimmed.
CharFieldValid(o) == IF IsNone(o) THEN TRUE ELSE strip(Val(o)) # <<>>

\* The validated value of the field: the trimmed text.
to_internal_value(o) == IF IsNone(o) THEN None ELSE Some(strip(Val(o)))

\* AnalysisCreateValid accepting a body with both url and content.
AnalysisCreateValid_allows_both(data) ==
    /\ CharFieldValid(data.url)
    /\ CharFieldValid(data.content)
    /\ ~(~Truthy(data.url) /\ ~Truthy(data.content))

\* AnalysisRecordCreateSerializer.is_valid: the fields, then validate.
AnalysisCreateValid(data) ==
    /\ CharFieldValid(data.url)
    /\ CharFieldValid(data.content)
    /\ ~(~Truthy(data.url) /\ ~Truthy(data.content))
    /\ ~(Truthy(data.url) /\ Truthy(data.content))

\* OptimizationRecordCreateSerializer.validate_content
OptimizationCreateValid(data) ==
    /\ ~(Len(strip(data.content)) < 10)
    /\ ~(Len(split(data.content)) < 5)

POST_ANALYSIS == "POST analysis"
POST_OPTIMIZATION == "POST optimization"

ViewOf(name) == IF name = OPTIMIZE THEN POST_OPTIMIZATION ELSE POST_ANALYSIS

\* The response of a create view as an event: the view, the id of the row
\* it made (0 for none), the HTTP status and the request body.
Response(view, record_id, status, data) ==
    [name |-> view, record_id |-> record_id, retries |-> 0, outcome |-> status,
     error |-> "none", calls |-> {}, results |-> Some(data), request |-> None]

\* A create request between its transaction and its call of delay.
Posting(name, record_id, data) ==
    [name |-> name, record_id |-> record_id, data |-> data]

\* Either create view with a body its serializer refuses.
RejectCreate(name, data) ==
    /\ IF name = OPTIMIZE THEN ~OptimizationCreateValid(data)
                          ELSE ~AnalysisCreateValid(data)
    /\ lastEvent' = Response(ViewOf(name), 0, "400", data)
    /\ UNCHANGED <<analysis, optimization, nextId, queue, running, now,
                   redelivered, flesch, lastCall, posting>>

\* AnalysisRecordListCreateAPIView.post with a body that validates, to the
\* end of its transaction; an exception of the insert is answered 500.
CreateAnalysis(data) ==
    /\ AnalysisCreateValid(data)
    /\ nextId.analysis + nextId.optimization - 2 < MaxRecords
    /\ \E committed \in BOOLEAN :
          IF committed
          THEN LET id == nextId.analysis
               IN  /\ analysis' = Put(analysis, id,
                          NewAnalysisRecord(to_internal_value(data.url),
                                            to_internal_value(data.content),
                                            strip(data.target_keyword), now))
                   /\ nextId' = [nextId EXCEPT !.analysis = @ + 1]
                   /\ posting' = posting \cup {Posting(ANALYZE, id, data)}
                   /\ lastEvent' = NoEvent
          ELSE /\ lastEvent' = Response(POST_ANALYSIS, 0, "500", data)
               /\ UNCHANGED <<analysis, nextId, posting>>
    /\ UNCHANGED <<optimization, queue, running, now, redelivered, flesch, lastCall>>

\* OptimizationRecordListCreateAPIView.post with a body that validates, to
\* the end of its transaction.
CreateOptimization(data) ==
    /\ OptimizationCreateValid(data)
    /\ nextId.analysis + nextId.optimization - 2 < MaxRecords
    /\ \E committed \in BOOLEAN :
          IF committed
          THEN LET id == nextId.optimization
               IN  /\ optimization' = Put(optimization, id,
                          NewOptimizationRecord(strip(data.content),
                                                data.target_keyword,
                                                data.target_length, data.tone, now))
                   /\ nextId' = [nextId EXCEPT !.optimization = @ + 1]
                   /\ posting' = posting \cup {Posting(OPTIMIZE, id, data)}
                   /\ lastEvent' = NoEvent
          ELSE /\ lastEvent' = Response(POST_OPTIMIZATION, 0, "500", data)
               /\ UNCHANGED <<optimization, nextId, posting>>
    /\ UNCHANGED <<analysis, queue, running, now, redelivered, flesch, lastCall>>

\* EnqueueFirst calling delay twice.
EnqueueFirst_twice(p) ==
    /\ p \in posting
    /\ posting' = posting \ {p}
    /\ queue' = queue (+) SetToBag({delay(p.name, p.record_id)})
                      (+) SetToBag({delay(p.name, p.record_id)})
    /\ lastEvent' = Response(ViewOf(p.name), p.record_id, "201", p.data)
    /\ UNCHANGED <<analysis, optimization, nextId, running, now, redelivered,
                   flesch, lastCall>>

\* The rest of either post: task.delay(record.id) and the 201 response, or
\* the 500 response when delay raises.
EnqueueFirst(p) ==
    /\ p \in posting
    /\ posting' = posting \ {p}
    /\ \E sent \in BOOLEAN :
          IF sent
          THEN /\ queue' = queue (+) SetToBag({delay(p.name, p.record_id)})
               /\ lastEvent' = Response(ViewOf(p.name), p.record_id, "201", p.data)
          ELSE /\ queue' = queue
               /\ lastEvent' = Response(ViewOf(p.name), p.record_id, "500", p.data)
    /\ UNCHANGED <<analysis, optimization, nextId, running, now, redelivered,
                   flesch, lastCall>>

\* A row removed from its table by hand, outside the pipeline.
DeleteRecord(name, id) ==
    /\ IF name = OPTIMIZE
       THEN /\ id \in DOMAIN optimization
            /\ optimization' = Remove(optimization, id)
            /\ UNCHANGED analysis
       ELSE /\ id \in DOMAIN analysis
            /\ analysis' = Remove(analysis, id)
            /\ UNCHANGED optimization
    /\ lastEvent' = NoEvent
    /\ UNCHANGED <<nextId, queue, running, now, redelivered, flesch, lastCall, posting>>

\* timezone.now() and time.time() advance.
Tick ==
    /\ now < MaxTime
    /\ now' = now + 1
    /\ lastEvent' = NoEvent
    /\ UNCHANGED <<analysis, optimization, nextId, queue, running, redelivered,
                   flesch, lastCall, posting>>

\* ------------------------------------------------------------------- Celery
TableOf(name) == IF name = OPTIMIZE THEN optimization ELSE analysis

\* objects_get as get_or_create would behave: a missing row is made up.
objects_get_or_create(name, id) ==
    IF id \in DOMAIN TableOf(name) THEN Some(TableOf(name)[id])
    ELSE IF name = OPTIMIZE
         THEN Some(NewOptimizationRecord(<<>>, <<>>, 0, "", now))
         ELSE Some(NewAnalysisRecord(None, None, <<>>, now))

\* Model.objects.get(id=record_id): None stands for DoesNotExist.
objects_get(name, id) ==
    IF id \in DOMAIN TableOf(name) THEN Some(TableOf(name)[id]) ELSE None

\* Save writing the row over every row of the table.
Save_every_row(name, id, row) ==
    IF name = OPTIMIZE
    THEN /\ optimization' = [k \in DOMAIN optimization \cup {id} |-> row]
         /\ UNCHANGED analysis
    ELSE /\ analysis' = [k \in DOMAIN analysis \cup {id} |-> row]
         /\ UNCHANGED optimization

\* The INSERT of a row: created_at is auto_now_add, set at every insert.
Inserted(row) == [row EXCEPT !.created_at = now]

\* Model.save() of a loaded row: every column is written by an UPDATE, and
\* a row that is no longer there is inserted again.
Save(name, id, row) ==
    IF name = OPTIMIZE
    THEN /\ optimization' = Put(optimization, id,
                                IF id \in DOMAIN optimization THEN row
                                ELSE Inserted(row))
         /\ UNCHANGED analysis
    ELSE /\ analysis' = Put(analysis, id,
                            IF id \in DOMAIN analysis THEN row ELSE Inserted(row))
         /\ UNCHANGED optimization

\* countdown growing by a fixed step instead of doubling.
countdown_linear(request) == 2 * request.retries

\* countdown=2**self.request.retries
countdown(request) == Pow2(request.retries)

\* retry that never gives up.
retry_no_limit(request, exc_given) == "Retry"

\* retry with the limit reached one attempt early.
retry_one_short(request, exc_given) ==
    IF request.retries + 1 >= max_retries
    THEN IF exc_given THEN "exc" ELSE "MaxRetriesExceededError"
    ELSE "Retry"

\* Task.retry(exc=..., countdown=...) called in a worker: what it raises.
\* Past max_retries it raises exc when one was passed, and
\* MaxRetriesExceededError only when none was.
retry(request, exc_given) ==
    IF request.retries + 1 > max_retries
    THEN IF exc_given THEN "exc" ELSE "MaxRetriesExceededError"
    ELSE "Retry"

\* A worker receives message m and runs the handler through its lookup of
\* the row.  The transport may deliver m again later (at-least-once).
StartTask(m) ==
    /\ BagIn(m, queue)
    /\ BagCardinality(running) < MaxWorkers
    /\ \E again \in BOOLEAN :
        /\ again => redelivered < MaxRedeliver
        /\ redelivered' = IF again THEN redelivered + 1 ELSE redelivered
        /\ queue' = IF again THEN queue ELSE queue (-) SetToBag({m})
    /\ LET record == objects_get(m.name, m.record_id)
       IN  IF IsNone(record)
           THEN /\ running' = running
                /\ lastEvent' = Event(m, "notfound", "none", {}, None)
           ELSE /\ running' = running (+)
                    SetToBag({[msg |-> m, record |-> Val(record),
                               start_time |-> now]})
                /\ lastEvent' = Event(m, "started", "none", {}, None)
    /\ UNCHANGED <<analysis, optimization, nextId, now, flesch, lastCall, posting>>

\* The except block shared by the three handlers: self.retry(exc=e,
\* countdown=2**self.request.retries), and the failed transition in the
\* handler of MaxRetriesExceededError.  record is the handler's in-memory row.
OnException(m, record, error, calls, results) ==
    LET raised == retry(m, TRUE)
    IN  /\ queue' = IF raised = "Retry"
                    THEN queue (+) SetToBag({Message(m.name, m.record_id,
                                             m.retries + 1, countdown(m))})
                    ELSE queue
        /\ IF raised = "MaxRetriesExceededError"
           THEN Save(m.name, m.record_id,
                     [record EXCEPT !.status = "failed",
                                    !.completed_at = Some(now)])
           ELSE UNCHANGED <<analysis, optimization>>
        /\ lastEvent' = Event(m, CASE raised = "Retry" -> "retry"
                                   [] raised = "exc" -> "raised"
                                   [] OTHER -> "failed", error, calls, results)

\* ------------------------------------------------------------------- stages
\* int((time.time() - start_time) * 1000)
ElapsedMs(start_time) == (now - start_time) * 1000

\* "{x if x else 'Unknown, ...'}" for a number: the number, or nothing of
\* it (None) when it is null or 0.
number_if_truthy(o) == IF IsNone(o) THEN None ELSE IF Val(o) = 0 THEN None ELSE o

\* The same for the issue map: nothing of it when it is null or empty.
issues_if_truthy(o) ==
    IF IsNone(o) THEN None ELSE IF DOMAIN Val(o) = {} THEN None ELSE o

\* The prompt post_analysis_optimize sends: what it carries of each argument.
post_analysis_prompt(content, keyword, readability_score, avg_sentence_length, issues, keyword_density, word_count) ==
    [content |-> content, keyword |-> keyword,
     readability_score |-> number_if_truthy(readability_score),
     keyword_density |-> number_if_truthy(keyword_density),
     avg_sentence_length |-> number_if_truthy(avg_sentence_length),
     issues |-> issues_if_truthy(issues),
     word_count |-> number_if_truthy(word_count)]

\* The request optimize_after_analysis_task makes of the row it loaded.
PostAnalysisRequest(record) ==
    post_analysis_prompt(record.input_content, record.target_keyword,
                         record.readability_score, record.avg_sentence_length,
                         record.issues, record.keyword_density, record.word_count)

\* SEOOptimizerService.post_analysis_optimize: its ValueError check.
PostAnalysisInvalid(content, keyword) == ~Truthy(content) \/ keyword = <<>>

\* OptimizeInvalid without the test of the tone.
OptimizeInvalid_ignores_tone(content, keyword, tone, target_length) ==
    ~Truthy(content) \/ keyword = <<>> \/ target_length = 0

\* SEOOptimizerService.optimize: its ValueError check.
OptimizeInvalid(content, keyword, tone, target_length) ==
    ~Truthy(content) \/ keyword = <<>> \/ tone = "" \/ target_length = 0

\* AnalyzedRecord leaving input_content as it was loaded.
AnalyzedRecord_keeps_input(record, content, analysis_data, start_time) ==
    [record EXCEPT
       !.word_count = Some(analysis_data.word_count),
       !.keyword_density = Some(analysis_data.keyword_density),
       !.readability_score = Some(analysis_data.readability_score),
       !.avg_sentence_length = Some(analysis_data.avg_sentence_length),
       !.seo_score = Some(analysis_data.seo_score),
       !.issues = Some(analysis_data.issues),
       !.status = "processing",
       !.processing_time = Some(ElapsedMs(start_time))]

\* The row analyze_content_task saves in its atomic block.
AnalyzedRecord(record, content, analysis_data, start_time) ==
    [record EXCEPT
       !.input_content = content,
       !.word_count = Some(analysis_data.word_count),
       !.keyword_density = Some(analysis_data.keyword_density),
       !.readability_score = Some(analysis_data.readability_score),
       !.avg_sentence_length = Some(analysis_data.avg_sentence_length),
       !.seo_score = Some(analysis_data.seo_score),
       !.issues = Some(analysis_data.issues),
       !.status = "processing",
       !.processing_time = Some(ElapsedMs(start_time))]

\* The row optimize_after_analysis_task saves in its atomic block.
PostAnalysisRecord(record, results) ==
    [record EXCEPT
       !.optimized_content = results.optimized_content,
       !.optimized_imporvements = Some(results.improvements_done),
       !.status = "completed",
       !.completed_at = Some(now)]

\* optimize_content_task: the two results.get assignments that precede the
\* scoring of the rewritten content.
AssignedRecord(record, results) ==
    [record EXCEPT
       !.optimized_content = results.optimized_content,
       !.optimized_imporvements = Some(results.improvements_done)]

\* RewrittenError refusing a null text only.
RewrittenError_null_only(assigned) ==
    IF IsNone(assigned.optimized_content) THEN "content" ELSE "none"

\* optimize_content_task: SEOAnalyzer(record.optimized_content,
\* record.target_keyword, "content"), the ValueError it raises or "none".
RewrittenError(assigned) ==
    SEOAnalyzerError(assigned.optimized_content, Some(assigned.target_keyword),
                     "content")

\* OptimizedRecord scoring the input content instead of the rewritten one.
OptimizedRecord_scores_input(assigned, start_time) ==
    [assigned EXCEPT
       !.optimized_keyword_denisty =
           Some(calculate_keyword_density(
                    SEOAnalyzer(assigned.input_content,
                                Some(assigned.target_keyword), "content"))),
       !.status = "completed",
       !.processing_time = Some(ElapsedMs(start_time)),
       !.completed_at = Some(now)]

\* optimize_content_task: the rest of its atomic block, once SEOAnalyzer
\* accepted the rewritten content.
OptimizedRecord(assigned, start_time) ==
    [assigned EXCEPT
       !.optimized_keyword_denisty =
           Some(calculate_keyword_density(
                    SEOAnalyzer(assigned.optimized_content,
                                Some(assigned.target_keyword), "content"))),
       !.status = "completed",
       !.processing_time = Some(ElapsedMs(start_time)),
       !.completed_at = Some(now)]

\* The except block of analyze_content_task with the hand-over to
\* optimize_after_analysis_task made there too.
AnalyzeExcept_enqueues(m, record, error, calls) ==
    /\ queue' = (IF retry(m, TRUE) = "Retry"
                 THEN queue (+) SetToBag({Message(m.name, m.record_id,
                                          m.retries + 1, countdown(m))})
                 ELSE queue) (+) SetToBag({delay(OPTIMIZE_AFTER, m.record_id)})
    /\ UNCHANGED <<analysis, optimization>>
    /\ lastEvent' = Event(m, IF retry(m, TRUE) = "Retry" THEN "retry" ELSE "raised",
                          error, calls, None)

\* The except block of analyze_content_task.
AnalyzeExcept(m, record, error, calls) ==
    OnException(m, record, error, calls, None)

\* analyze_content_task from the loaded row to its end.  fetched is what
\* extract_html does for the row's URL: None when requests raises; written
\* tells whether record.save() commits or raises a database error.
AnalyzeBody(e) ==
    /\ BagIn(e, running)
    /\ e.msg.name = ANALYZE
    /\ running' = running (-) SetToBag({e})
    /\ LET m      == e.msg
           record == e.record
           byUrl  == Truthy(record.input_url)
       IN  \E fetched \in IF byUrl THEN {None} \cup {Some(p) : p \in FetchedPages}
                          ELSE {None} :
             LET input_type == IF byUrl THEN "html" ELSE "content"
                 content    == IF byUrl THEN fetched ELSE record.input_content
                 fetchError == byUrl /\ IsNone(fetched)
                 invalid    == SEOAnalyzerError(content, Some(record.target_keyword),
                                                input_type)
                 calls      == (IF byUrl THEN {"fetch"} ELSE {})
                               \cup (IF fetchError THEN {} ELSE {"score"})
             IN  IF fetchError
                 THEN AnalyzeExcept(m, record, "fetch", calls)
                 ELSE IF invalid # "none"
                 THEN AnalyzeExcept(m, record, "invalid", calls)
                 ELSE LET analyzer == <<Val(content), record.target_keyword, input_type>>
                          analysis_data == AnalysisData[analyzer][flesch[analyzer]]
                          saved == AnalyzedRecord(record, content, analysis_data,
                                                  e.start_time)
                      IN  \E written \in BOOLEAN :
                            IF ~written
                            THEN AnalyzeExcept(m, saved, "write", calls)
                            ELSE /\ Save(ANALYZE, m.record_id, saved)
                                 /\ queue' = queue (+)
                                        SetToBag({delay(OPTIMIZE_AFTER, m.record_id)})
                                 /\ lastEvent' = Event(m, "ok", "none", calls, None)
    /\ UNCHANGED <<nextId, now, redelivered, flesch, lastCall, posting>>

\* optimize_after_analysis_task from the loaded row to its end.  results is
\* what _send_request returns: None when it raises RuntimeError; written as
\* in AnalyzeBody.
OptimizeAfterBody(e) ==
    /\ BagIn(e, running)
    /\ e.msg.name = OPTIMIZE_AFTER
    /\ running' = running (-) SetToBag({e})
    /\ LET m      == e.msg
           record == e.record
       IN  IF PostAnalysisInvalid(record.input_content, record.target_keyword)
           THEN OnException(m, record, "validation", {}, None)
           ELSE \E results \in {None} \cup {Some(r) : r \in RewriteResults} :
                  IF IsNone(results)
                  THEN OnException(m, record, "rewrite", {"rewrite"}, None)
                  ELSE LET saved == PostAnalysisRecord(record, Val(results))
                       IN  \E written \in BOOLEAN :
                             IF ~written
                             THEN OnException(m, saved, "write", {"rewrite"}, results)
                             ELSE /\ Save(OPTIMIZE_AFTER, m.record_id, saved)
                                  /\ queue' = queue
                                  /\ lastEvent' =
                                         [Event(m, "ok", "none", {"rewrite"}, results)
                                            EXCEPT !.request =
                                                Some(PostAnalysisRequest(record))]
    /\ UNCHANGED <<nextId, now, redelivered, flesch, lastCall, posting>>

\* optimize_content_task from the loaded row to its end.
OptimizeBody(e) ==
    /\ BagIn(e, running)
    /\ e.msg.name = OPTIMIZE
    /\ running' = running (-) SetToBag({e})
    /\ LET m      == e.msg
           record == e.record
       IN  IF OptimizeInvalid(record.input_content, record.target_keyword,
                              record.tone, record.target_length)
           THEN OnException(m, record, "validation", {}, None)
           ELSE \E results \in {None} \cup {Some(r) : r \in RewriteResults} :
                  IF IsNone(results)
                  THEN OnException(m, record, "rewrite", {"rewrite"}, None)
                  ELSE LET assigned == AssignedRecord(record, Val(results))
                           invalid == RewrittenError(assigned)
                       IN  IF invalid # "none"
                           THEN OnException(m, assigned, "invalid",
                                            {"rewrite", "score"}, results)
                           ELSE LET saved == OptimizedRecord(assigned, e.start_time)
                                IN  \E written \in BOOLEAN :
                                      IF ~written
                                      THEN OnException(m, saved, "write",
                                                       {"rewrite", "score"}, results)
                                      ELSE /\ Save(OPTIMIZE, m.record_id, saved)
                                           /\ queue' = queue
                                           /\ lastEvent' =
                                                  Event(m, "ok", "none",
                                                        {"rewrite", "score"}, results)
    /\ UNCHANGED <<nextId, now, redelivered, flesch, lastCall, posting>>

\* ------------------------------------------------------------ specification
Next ==
    \/ \E data \in AnalysisPayloads : RejectCreate(ANALYZE, data)
    \/ \E data \in OptimizationPayloads : RejectCreate(OPTIMIZE, data)
    \/ \E data \in AnalysisPayloads : CreateAnalysis(data)
    \/ \E data \in OptimizationPayloads : CreateOptimization(data)
    \/ \E p \in posting : EnqueueFirst(p)
    \/ \E m \in BagToSet(queue) : StartTask(m)
    \/ \E e \in BagToSet(running) : AnalyzeBody(e)
    \/ \E e \in BagToSet(running) : OptimizeAfterBody(e)
    \/ \E e \in BagToSet(running) : OptimizeBody(e)
    \/ \E name \in TaskNames, id \in 1..MaxRecords : DeleteRecord(name, id)
    \/ Tick

Spec == Init /\ [][Next]_vars

\* Workers keep taking messages and handlers keep running to their end;
\* every collaborator call returns or fails.
WorkerStep ==
    \/ \E m \in BagToSet(queue) : StartTask(m)
    \/ \E e \in BagToSet(running) :
          AnalyzeBody(e) \/ OptimizeAfterBody(e) \/ OptimizeBody(e)

\* A create view that has committed its row goes on to its call of delay.
ViewStep == \E p \in posting : EnqueueFirst(p)

FairSpec == Spec /\ WF_vars(WorkerStep) /\ WF_vars(ViewStep)

\* --------------------------------------------- several records in the store
\* Two Analysis records (one made with content, one with a URL) and one
\* Optimization record, each created by its view and each with its first
\* stage on the attempt that follows FirstRetries failed ones; the workers
\* run the stages of the three records in any order.
FirstRetries == max_retries

PairInit ==
    /\ analysis = <<NewAnalysisRecord(None, Some(PlainContent), Keyword, 1),
                    NewAnalysisRecord(Some(Url), None, Keyword, 1)>>
    /\ optimization = <<NewOptimizationRecord(OptContent, Keyword, 500,
                                              "professional", 1)>>
    /\ nextId = [analysis |-> 3, optimization |-> 2]
    /\ queue = SetToBag({Message(ANALYZE, 1, FirstRetries, Pow2(FirstRetries - 1)),
                         Message(ANALYZE, 2, FirstRetries, Pow2(FirstRetries - 1)),
                         Message(OPTIMIZE, 1, FirstRetries, Pow2(FirstRetries - 1))})
    /\ running = EmptyBag
    /\ now = 1
    /\ redelivered = 0
    /\ flesch = [in \in AnalyzedInputs |-> 7000]
    /\ lastEvent = NoEvent
    /\ lastCall = NoCall
    /\ posting = {}

PairNext ==
    \/ \E m \in BagToSet(queue) : StartTask(m)
    \/ \E e \in BagToSet(running) : AnalyzeBody(e)
    \/ \E e \in BagToSet(running) : OptimizeAfterBody(e)
    \/ \E e \in BagToSet(running) : OptimizeBody(e)

PairSpec == PairInit /\ [][PairNext]_vars

\* ------------------------------------------- the Scoring Engine on its own
\* The methods of SEOAnalyzer called directly, as the unit tests of
\* tests/unit/test_services.py call them: calculate_keyword_density on an
\* instance, generate_issues with the metric methods patched to return given
\* values, calculate_mock_seo_score with generate_issues patched to return a
\* given issue map.
PlainAlphabet == {"a", "A", "b", Space}

HtmlAlphabet == {"a", "b", Space, "<h1>", "</h1>"}

StringsOver(alphabet, n) == UNION {[1..k -> alphabet] : k \in 1..n}

\* "keyword test keyword test keyword" of test_keyword_density_calculation.
ThreeOfFive == <<"b", " ", "a", " ", "b", " ", "a", " ", "b">>

ScoredContents ==
    [content : StringsOver(PlainAlphabet, MaxContentLen) \cup {ThreeOfFive},
     input_type : {"content"}]
    \cup [content : StringsOver(HtmlAlphabet, MaxContentLen),
          input_type : {"html"}]

ScoredKeywords ==
    {<<"a">>, <<"A">>, <<"b">>, <<"a", "b">>, <<" ", "a", " ">>, <<"a", " ", "b">>}

\* Values of calculate_keyword_density, in hundredths: 0.49 is 1 word of
\* 204, 0.5 is 1 of 200, 0.51 is 1 of 196, 4.99 is 20 of 401, 5 is 1 of 20,
\* 5.01 is 20 of 399.
DensityValues == {0, 49, 50, 51, 250, 499, 500, 501, 10000}

\* What extract_headings and check_meta_description return.
HeadingValues ==
    [h1 : {<<>>, <<<<"a">>>>}, h2 : {<<>>, <<<<"a">>>>}, h3 : {<<>>, <<<<"b">>>>}]

PatchedReadability == {3000, 4999, 5000, 5001, 7000}

IssueKeys == DOMAIN ISSUE_DEFINITIONS \cup {"custom"}

Severities == DOMAIN SEVERITY_PENALTIES

\* Issue maps a test can make generate_issues return: any keys, each entry
\* with a severity of its own.
IssueMaps ==
    UNION {[keys -> [severity : Severities]] : keys \in SUBSET IssueKeys}

Call(method, args, result) ==
    [method |-> method, args |-> args, result |-> Some(result)]

CallKeywordDensity ==
    /\ lastCall = NoCall
    /\ \E c \in ScoredContents, target_keyword \in ScoredKeywords :
          /\ SEOAnalyzerError(Some(c.content), Some(target_keyword),
                              c.input_type) = "none"
          /\ lastCall' = Call("calculate_keyword_density",
                              <<c.content, target_keyword, c.input_type>>,
                              calculate_keyword_density(
                                  SEOAnalyzer(Some(c.content), Some(target_keyword),
                                              c.input_type)))
    /\ UNCHANGED <<analysis, optimization, nextId, queue, running, now,
                   redelivered, flesch, lastEvent, posting>>

\* analyzer.analyze() of an instance the constructor accepted.
CallAnalyze ==
    /\ lastCall = NoCall
    /\ \E c \in ScoredContents, target_keyword \in ScoredKeywords,
          readability \in ReadabilityValues :
          /\ SEOAnalyzerError(Some(c.content), Some(target_keyword),
                              c.input_type) = "none"
          /\ lastCall' = Call("analyze",
                              <<c.content, target_keyword, c.input_type, readability>>,
                              analyze(SEOAnalyzer(Some(c.content), Some(target_keyword),
                                                  c.input_type), readability))
    /\ UNCHANGED <<analysis, optimization, nextId, queue, running, now,
                   redelivered, flesch, lastEvent, posting>>

\* The atomic block of optimize_content_task on a new row and a rewritten
\* text the constructor accepts: the row it would save.
CallScoreRewritten ==
    /\ lastCall = NoCall
    /\ \E c \in ScoredContents, target_keyword \in ScoredKeywords :
          LET record   == NewOptimizationRecord(OptContent, strip(target_keyword),
                                                500, "professional", now)
              assigned == AssignedRecord(record,
                                         [optimized_content |-> Some(c.content),
                                          improvements_done |-> <<>>])
          IN  /\ c.input_type = "content"
              /\ RewrittenError(assigned) = "none"
              /\ lastCall' = Call("optimize_content_task",
                                  <<c.content, target_keyword>>,
                                  OptimizedRecord(assigned, now))
    /\ UNCHANGED <<analysis, optimization, nextId, queue, running, now,
                   redelivered, flesch, lastEvent, posting>>

\* Arguments of the constructor, valid and not.
InitContents == {None, Some(<<>>), Some(<<" ">>), Some(<<"a", " ", "B">>)}

InitKeywords == {None, Some(<<>>), Some(<<" ">>), Some(<<" ", "A", "b", " ">>)}

\* SEOAnalyzer(content, target_keyword, input_type): the result is the
\* instance, or the name of the argument the ValueError is about.
CallInit ==
    /\ lastCall = NoCall
    /\ \E content \in InitContents, target_keyword \in InitKeywords,
          input_type \in InputTypes :
          lastCall' = Call("__init__", <<content, target_keyword, input_type>>,
                           IF SEOAnalyzerError(content, target_keyword,
                                               input_type) = "none"
                           THEN [raised   |-> "none",
                                 instance |-> Some(SEOAnalyzer(content, target_keyword,
                                                               input_type))]
                           ELSE [raised   |-> SEOAnalyzerError(content, target_keyword,
                                                               input_type),
                                 instance |-> None])
    /\ UNCHANGED <<analysis, optimization, nextId, queue, running, now,
                   redelivered, flesch, lastEvent, posting>>

\* HTML input: the headings and the meta description are what the page has.
CallGenerateIssuesHtml ==
    /\ lastCall = NoCall
    /\ \E density \in DensityValues, headings \in HeadingValues,
          meta \in BOOLEAN, readability \in PatchedReadability :
          lastCall' = Call("generate_issues",
                           <<density, "html", headings, Some(meta), readability>>,
                           generate_issues_with(density, "html", headings,
                                                Some(meta), readability))
    /\ UNCHANGED <<analysis, optimization, nextId, queue, running, now,
                   redelivered, flesch, lastEvent, posting>>

\* Plain input: extract_headings returns {} and check_meta_description None.
CallGenerateIssuesContent ==
    /\ lastCall = NoCall
    /\ \E density \in DensityValues, readability \in PatchedReadability :
          lastCall' = Call("generate_issues",
                           <<density, "content", [k \in {} |-> <<>>], None,
                             readability>>,
                           generate_issues_with(density, "content",
                                                [k \in {} |-> <<>>], None,
                                                readability))
    /\ UNCHANGED <<analysis, optimization, nextId, queue, running, now,
                   redelivered, flesch, lastEvent, posting>>

CallSeoScore ==
    /\ lastCall = NoCall
    /\ \E issues \in IssueMaps :
          lastCall' = Call("calculate_mock_seo_score", <<issues>>,
                           calculate_mock_seo_score_with(issues))
    /\ UNCHANGED <<analysis, optimization, nextId, queue, running, now,
                   redelivered, flesch, lastEvent, posting>>

\* ------------------------------------------ the Rewrite Service on its own
\* The text of a chat completion as a sequence of tokens: braces, brackets,
\* members of an object, and text that is no JSON.
OcString == "\"optimized_content\": \"a b\""
OcNull   == "\"optimized_content\": null"
IdList   == "\"improvements_done\": [\"A\", \"B\"]"
IdString == "\"improvements_done\": \"A\""

Members == {OcString, OcNull, IdList, IdString}

MemberKey(t) == IF t \in {OcString, OcNull} THEN "optimized_content"
                ELSE "improvements_done"

MemberValue(t) ==
    CASE t = OcString -> [type |-> "str",  value |-> Some(Rewrite1)]
      [] t = OcNull   -> [type |-> "null", value |-> None]
      [] t = IdList   -> [type |-> "list", value |-> Some(<<"A", "B">>)]
      [] t = IdString -> [type |-> "str",  value |-> Some(<<"A">>)]

\* json.loads: the parsed value, or a JSONDecodeError.  An object keeps, for
\* each key, the value of its last member with that key.
json_loads(raw) ==
    IF raw = <<"[", "]">>
        THEN [decoded |-> TRUE, type |-> "list", dict |-> <<>>]
    ELSE IF /\ Len(raw) >= 2
            /\ raw[1] = "{"
            /\ raw[Len(raw)] = "}"
            /\ \A i \in 2..(Len(raw) - 1) : raw[i] \in Members
        THEN [decoded |-> TRUE, type |-> "dict",
              dict |-> [k \in {MemberKey(raw[i]) : i \in 2..(Len(raw) - 1)} |->
                          LET last == CHOOSE i \in 2..(Len(raw) - 1) :
                                        /\ MemberKey(raw[i]) = k
                                        /\ \A j \in (i + 1)..(Len(raw) - 1) :
                                              MemberKey(raw[j]) # k
                          IN  MemberValue(raw[last])]]
    ELSE [decoded |-> FALSE, type |-> "none", dict |-> <<>>]

\* What chat.completions.create does: it raises an OpenAIError, or returns a
\* completion whose message content is a text or null.
Completions ==
    {[api_error |-> TRUE, content |-> None], [api_error |-> FALSE, content |-> None]}
    \cup {[api_error |-> FALSE, content |-> Some(c)] :
            c \in {<<>>, <<Space>>, <<"x">>, <<"{", OcString>>, <<"[", "]">>,
                   <<"{", "}">>, <<"{", OcString, "}">>, <<"{", IdList, "}">>,
                   <<"{", OcString, IdString, "}">>,
                   <<"{", OcString, IdList, "}">>,
                   <<"{", OcNull, IdList, "}">>,
                   <<"{", IdList, OcString, IdString, "}">>,
                   <<Space, "{", OcString, IdList, "}", Space>>}}

Raised(exception, message) ==
    [raised |-> exception, message |-> message, value |-> None]

Returned(value) == [raised |-> "none", message |-> "", value |-> Some(value)]

\* _send_request without the test that improvements_done is a list.
send_request_any_improvements(completion) ==
    IF completion.api_error THEN Raised("RuntimeError", "OpenAI API error")
    ELSE IF IsNone(completion.content) THEN Raised("AttributeError", "")
    ELSE LET parsed == json_loads(strip(Val(completion.content)))
         IN  IF ~parsed.decoded
                 THEN Raised("RuntimeError", "Invalid JSON returned from model")
             ELSE IF \/ parsed.type # "dict"
                     \/ "optimized_content" \notin DOMAIN parsed.dict
                     \/ "improvements_done" \notin DOMAIN parsed.dict
                 THEN Raised("RuntimeError", "Unexpected JSON structure")
             ELSE Returned(parsed.dict)

\* SEOOptimizerService._send_request, given what the OpenAI client does.
send_request(completion) ==
    IF completion.api_error THEN Raised("RuntimeError", "OpenAI API error")
    ELSE IF IsNone(completion.content) THEN Raised("AttributeError", "")
    ELSE LET parsed == json_loads(strip(Val(completion.content)))
         IN  IF ~parsed.decoded
                 THEN Raised("RuntimeError", "Invalid JSON returned from model")
             ELSE IF \/ parsed.type # "dict"
                     \/ "optimized_content" \notin DOMAIN parsed.dict
                     \/ "improvements_done" \notin DOMAIN parsed.dict
                     \/ parsed.dict["improvements_done"].type # "list"
                 THEN Raised("RuntimeError", "Unexpected JSON structure")
             ELSE Returned(parsed.dict)

CallSendRequest ==
    /\ lastCall = NoCall
    /\ \E completion \in Completions :
          lastCall' = Call("_send_request", <<completion>>,
                           send_request(completion))
    /\ UNCHANGED <<analysis, optimization, nextId, queue, running, now,
                   redelivered, flesch, lastEvent, posting>>

\* Arguments of the two public methods: a missing one is null or empty; the
\* tone "" and the target length 0 stand for their falsy values.
ServiceContents == {None, Some(<<>>), Some(<<Space>>), Some(PlainContent)}

ServiceKeywords == {None, Some(<<>>), Some(Keyword)}

ServiceTones == {"", "formal"}

ServiceLengths == {0, 300}

\* What a public method hands back: the outcome of _send_request and the
\* number of requests it sent, or its own ValueError with none sent.
Sent(outcome) == [raised |-> outcome.raised, value |-> outcome.value, requests |-> 1]

NotSent == [raised |-> "ValueError", value |-> None, requests |-> 0]

\* SEOOptimizerService.post_analysis_optimize
post_analysis_optimize(content, keyword, completion) ==
    IF IsNone(keyword) \/ PostAnalysisInvalid(content, Val(keyword))
    THEN NotSent
    ELSE Sent(send_request(completion))

\* SEOOptimizerService.optimize
optimize(content, keyword, tone, target_length, completion) ==
    IF IsNone(keyword) \/ OptimizeInvalid(content, Val(keyword), tone, target_length)
    THEN NotSent
    ELSE Sent(send_request(completion))

CallPostAnalysisOptimize ==
    /\ lastCall = NoCall
    /\ \E content \in ServiceContents, keyword \in ServiceKeywords,
          completion \in Completions :
          lastCall' = Call("post_analysis_optimize", <<content, keyword>>,
                           post_analysis_optimize(content, keyword, completion))
    /\ UNCHANGED <<analysis, optimization, nextId, queue, running, now,
                   redelivered, flesch, lastEvent, posting>>

CallOptimize ==
    /\ lastCall = NoCall
    /\ \E content \in ServiceContents, keyword \in ServiceKeywords,
          tone \in ServiceTones, target_length \in ServiceLengths,
          completion \in Completions :
          lastCall' = Call("optimize", <<content, keyword, tone, target_length>>,
                           optimize(content, keyword, tone, target_length,
                                    completion))
    /\ UNCHANGED <<analysis, optimization, nextId, queue, running, now,
                   redelivered, flesch, lastEvent, posting>>

\* The call returns to the test.
ReturnCall ==
    /\ lastCall # NoCall
    /\ lastCall' = NoCall
    /\ UNCHANGED <<analysis, optimization, nextId, queue, running, now,
                   redelivered, flesch, lastEvent, posting>>

ScoreInit == Init

ScoreNext ==
    \/ CallInit
    \/ CallKeywordDensity
    \/ CallAnalyze
    \/ CallScoreRewritten
    \/ CallGenerateIssuesHtml
    \/ CallGenerateIssuesContent
    \/ CallSeoScore
    \/ CallSendRequest
    \/ CallPostAnalysisOptimize
    \/ CallOptimize
    \/ ReturnCall

ScoreSpec == ScoreInit /\ [][ScoreNext]_vars

\* =================================================================== claims
Ids == 1..MaxRecords

\* Outcomes of the part of a handler that follows the lookup of the row.
BodyOutcomes == {"ok", "retry", "raised", "failed"}

\* The row the last event is about, once it is known to exist.
EventRow == TableOf(lastEvent.name)[lastEvent.record_id]

EventRowExists == lastEvent.record_id \in DOMAIN TableOf(lastEvent.name)

NoMessageAdded ==
    \A m \in BagToSet(queue') : CopiesIn(m, queue') <= CopiesIn(m, queue)

\* No task.delay(record_id): no message of a first attempt is added.
NoStageEnqueued ==
    \A m \in BagToSet(queue') :
        m.retries = 0 => CopiesIn(m, queue') <= CopiesIn(m, queue)

\* C1: a record's status is monotonic: once it is 'completed' or 'failed'
\* no step of the pipeline gives it any other value.
C1_StatusMonotonic ==
    [][/\ \A id \in DOMAIN analysis \cap DOMAIN analysis' :
            analysis[id].status \in Terminal
                => analysis'[id].status = analysis[id].status
       /\ \A id \in DOMAIN optimization \cap DOMAIN optimization' :
            optimization[id].status \in Terminal
                => optimization'[id].status = optimization[id].status]_vars

\* C2: when the attempt that follows max_retries retries fails too (every
\* attempt of the stage failed, no message was delivered twice), the record
\* has status 'failed' and completed_at is set.
C2_ExhaustedStageFails ==
    (/\ lastEvent.error # "none"
     /\ lastEvent.retries = max_retries
     /\ redelivered = 0
     /\ EventRowExists)
        => /\ EventRow.status = "failed"
           /\ EventRow.completed_at # None

\* A task of one of the named stages is queued or running for the record.
HasTask(names, id) ==
    \/ \E m \in BagToSet(queue) : m.name \in names /\ m.record_id = id
    \/ \E e \in BagToSet(running) : e.msg.name \in names /\ e.msg.record_id = id

\* C3: under fair workers every record that was created and whose first
\* stage was enqueued eventually has a terminal status (or is no longer in
\* its table).
C3_EventuallyTerminal ==
    \A id \in Ids :
        /\ (id \in DOMAIN analysis /\ HasTask({ANALYZE, OPTIMIZE_AFTER}, id))
               ~> (id \notin DOMAIN analysis \/ analysis[id].status \in Terminal)
        /\ (id \in DOMAIN optimization /\ HasTask({OPTIMIZE}, id))
               ~> (id \notin DOMAIN optimization
                   \/ optimization[id].status \in Terminal)

\* C4: a record with a terminal status has completed_at set, and no step
\* changes the completed_at of such a record.
C4_CompletedAtImmutable ==
    [][/\ \A id \in DOMAIN analysis :
            analysis[id].status \in Terminal
                => /\ analysis[id].completed_at # None
                   /\ id \in DOMAIN analysis'
                          => analysis'[id].completed_at = analysis[id].completed_at
       /\ \A id \in DOMAIN optimization :
            optimization[id].status \in Terminal
                => /\ optimization[id].completed_at # None
                   /\ id \in DOMAIN optimization'
                          => optimization'[id].completed_at
                                 = optimization[id].completed_at]_vars

\* C5 as stated: an attempt that fails with the Scoring Engine's ValueError
\* schedules no further attempt.
C5_InvalidInputNotRetried ==
    lastEvent.error = "invalid" => lastEvent.outcome # "retry"

\* C5 as amended: an attempt that fails with the Scoring Engine's ValueError
\* after fewer than max_retries retries is retried like any other failure:
\* it adds to the queue one message for the same stage and record with
\* retries + 1 and countdown 2^retries, and changes no row.
C5_InvalidInputRetried ==
    [][(lastEvent'.error = "invalid" /\ lastEvent'.retries < max_retries)
          => /\ lastEvent'.outcome = "retry"
             /\ queue' = queue (+)
                    SetToBag({Message(lastEvent'.name, lastEvent'.record_id,
                                      lastEvent'.retries + 1,
                                      Pow2(lastEvent'.retries))})
             /\ analysis' = analysis
             /\ optimization' = optimization]_vars

\* Reached: the third retry is scheduled after a ValueError of the Scoring
\* Engine.
C5_Witness ==
    /\ lastEvent.error = "invalid"
    /\ lastEvent.outcome = "retry"
    /\ lastEvent.retries = max_retries - 1

\* C6: an execution of optimize_after_analysis_task that ends while the
\* record is 'completed' leaves optimized_content as it was and does not
\* move completed_at backward.
C6_StageBIdempotent ==
    [][\A id \in DOMAIN analysis :
          (/\ lastEvent'.name = OPTIMIZE_AFTER
           /\ lastEvent'.record_id = id
           /\ lastEvent'.outcome \in BodyOutcomes
           /\ analysis[id].status = "completed")
              => /\ id \in DOMAIN analysis'
                 /\ analysis'[id].optimized_content = analysis[id].optimized_content
                 /\ Val(analysis'[id].completed_at)
                        >= Val(analysis[id].completed_at)]_vars

\* C7: a step of a stage handler for a record whose status is terminal
\* leaves both tables as they were and enqueues no stage.
C7_TerminalReadOnly ==
    [][(/\ lastEvent'.name \in TaskNames
        /\ lastEvent'.record_id \in DOMAIN TableOf(lastEvent'.name)
        /\ TableOf(lastEvent'.name)[lastEvent'.record_id].status \in Terminal)
          => /\ analysis' = analysis
             /\ optimization' = optimization
             /\ NoStageEnqueued]_vars

\* C8: a stage started with a record id that is absent from its table is
\* a no-op: it returns at the lookup, no row is created or changed, no
\* collaborator is called, no execution goes on, no message is added.
C8_MissingRecordNoOp ==
    [][(/\ lastEvent'.outcome \in {"notfound", "started"}
        /\ lastEvent'.record_id \notin DOMAIN TableOf(lastEvent'.name))
          => /\ lastEvent'.outcome = "notfound"
             /\ lastEvent'.calls = {}
             /\ analysis' = analysis
             /\ optimization' = optimization
             /\ running' = running
             /\ NoMessageAdded]_vars

\* Reached: Stage B started for a record that was deleted meanwhile.
C8_Witness ==
    /\ lastEvent.outcome = "notfound"
    /\ lastEvent.name = OPTIMIZE_AFTER

\* C9: when Stage A succeeded and the last allowed attempt of Stage B fails
\* at the Rewrite Service as the earlier ones did, the record is 'failed',
\* keeps the metrics Stage A wrote and has no optimized_content.
C9_StageBAlwaysFails ==
    (/\ lastEvent.name = OPTIMIZE_AFTER
     /\ lastEvent.error = "rewrite"
     /\ lastEvent.retries = max_retries
     /\ redelivered = 0
     /\ EventRowExists)
        => /\ EventRow.status = "failed"
           /\ EventRow.word_count # None
           /\ EventRow.keyword_density # None
           /\ EventRow.readability_score # None
           /\ EventRow.avg_sentence_length # None
           /\ EventRow.seo_score # None
           /\ EventRow.issues # None
           /\ EventRow.optimized_content = None

\* C10: after a successful run of optimize_content_task the record is
\* 'completed', completed_at and processing_time are set, optimized_content
\* and the improvements are the ones the Rewrite Service returned (same
\* order), and optimized_keyword_denisty is the Scoring Engine's keyword
\* density of the returned content for the record's target keyword.
C10_DirectOptimizeSuccess ==
    (lastEvent.name = OPTIMIZE /\ lastEvent.outcome = "ok")
        => /\ EventRowExists
           /\ EventRow.status = "completed"
           /\ EventRow.completed_at # None
           /\ EventRow.processing_time # None
           /\ EventRow.optimized_content = Val(lastEvent.results).optimized_content
           /\ EventRow.optimized_imporvements
                  = Some(Val(lastEvent.results).improvements_done)
           /\ EventRow.optimized_keyword_denisty
                  = Some(calculate_keyword_density(
                        SEOAnalyzer(Val(lastEvent.results).optimized_content,
                                    Some(EventRow.target_keyword), "content")))

\* Reached: a direct optimization completed with the improvements <<B, A>>.
C10_Witness ==
    /\ lastEvent.name = OPTIMIZE
    /\ lastEvent.outcome = "ok"
    /\ Val(lastEvent.results).improvements_done = <<"B", "A">>

\* Messages and executions of a stage for a record, in the queue or running.
InFlight(q, r, name, id) ==
    Cardinality({m \in BagToSet(q) : m.name = name /\ m.record_id = id})
      + Cardinality({e \in BagToSet(r) : e.msg.name = name /\ e.msg.record_id = id})

Added(m) == CopiesIn(m, queue') > CopiesIn(m, queue)

OutputsUnset(row) ==
    /\ row.optimized_content = None
    /\ row.optimized_imporvements = None

C12_AtMostFourAttempts ==
    [][/\ \A m \in BagToSet(queue') : m.retries \in 0..3
       /\ \A e \in BagToSet(running') : e.msg.retries \in 0..3
       /\ (lastEvent'.error # "none" /\ lastEvent'.retries < 3)
             => /\ lastEvent'.outcome = "retry"
                /\ \E m \in BagToSet(queue') :
                      /\ m.name = lastEvent'.name
                      /\ m.record_id = lastEvent'.record_id
                      /\ m.retries = lastEvent'.retries + 1
                      /\ queue' = queue (+) SetToBag({m})
       /\ (lastEvent'.error # "none" /\ lastEvent'.retries >= 3)
             => /\ lastEvent'.outcome # "retry"
                /\ NoMessageAdded
       /\ redelivered' = 0
             => \A name \in TaskNames, id \in Ids :
                   InFlight(queue', running', name, id) <= 1]_vars

\* Reached: the fourth attempt of Stage A failed at the Content Fetcher.
C12_Witness ==
    /\ lastEvent.name = ANALYZE
    /\ lastEvent.error = "fetch"
    /\ lastEvent.retries = 3
    /\ lastEvent.outcome = "raised"
    /\ redelivered = 0

\* C13: the message of attempt r + 1 of a stage is added by the very step
\* in which attempt r of that stage for that record ends (its execution
\* leaves the running set), with a requested delay of 1, 2, 4 seconds for
\* r = 0, 1, 2; and while the transport delivers no message twice, the
\* attempts of a stage for a record never overlap.
C13_RetriesSequential ==
    [][/\ \A m \in BagToSet(queue') :
            (m.retries > 0 /\ Added(m))
               => /\ lastEvent'.outcome = "retry"
                  /\ lastEvent'.name = m.name
                  /\ lastEvent'.record_id = m.record_id
                  /\ lastEvent'.retries = m.retries - 1
                  /\ m.countdown = <<1, 2, 4>>[m.retries]
                  /\ \E e \in BagToSet(running) :
                        /\ e.msg.name = m.name
                        /\ e.msg.record_id = m.record_id
                        /\ e.msg.retries = m.retries - 1
                        /\ CopiesIn(e, running') = CopiesIn(e, running) - 1
       /\ redelivered' = 0
             => \A name \in TaskNames, id \in Ids :
                   /\ InFlight(EmptyBag, running', name, id) <= 1
                   /\ InFlight(EmptyBag, running', name, id) = 1
                         => InFlight(queue', EmptyBag, name, id) = 0]_vars

\* Reached: the third retry of Stage B was just scheduled with a delay of 4.
C13_Witness ==
    /\ \E m \in BagToSet(queue) :
          m.name = OPTIMIZE_AFTER /\ m.retries = 3 /\ m.countdown = 4
    /\ lastEvent.outcome = "retry"
    /\ lastEvent.retries = 2
    /\ redelivered = 0

MetricsSet(row) ==
    /\ row.word_count # None
    /\ row.keyword_density # None
    /\ row.readability_score # None
    /\ row.avg_sentence_length # None
    /\ row.seo_score # None
    /\ row.issues # None

\* C14: a first-attempt message of Stage B is added only by a step of
\* Stage A for the same record that has just committed the metrics; a
\* failing attempt of Stage A (fetch, scoring or write error) adds no
\* Stage B message and writes nothing; retries of Stage B are added by
\* Stage B only; so Stage B waits or runs only for a record whose metrics
\* were committed (unless the row was deleted since).
C14_StageBAfterStageACommit ==
    [][/\ \A id \in Ids :
            Added(delay(OPTIMIZE_AFTER, id))
               => /\ lastEvent'.name = ANALYZE
                  /\ lastEvent'.record_id = id
                  /\ lastEvent'.outcome = "ok"
                  /\ id \in DOMAIN analysis'
                  /\ MetricsSet(analysis'[id])
       /\ (lastEvent'.name = ANALYZE /\ lastEvent'.error # "none")
             => /\ \A m \in BagToSet(queue') : m.name = OPTIMIZE_AFTER => ~Added(m)
                /\ analysis' = analysis
       /\ \A m \in BagToSet(queue') :
            (m.name = OPTIMIZE_AFTER /\ m.retries > 0 /\ Added(m))
               => lastEvent'.name = OPTIMIZE_AFTER
       /\ \A id \in DOMAIN analysis' :
            InFlight(queue', running', OPTIMIZE_AFTER, id) > 0
               => MetricsSet(analysis'[id])]_vars

\* Reached: the fourth attempt of Stage A failed at its write, and no
\* Stage B message exists.
C14_Witness ==
    /\ lastEvent.name = ANALYZE
    /\ lastEvent.error = "write"
    /\ lastEvent.retries = 3
    /\ \A id \in Ids : InFlight(queue, running, OPTIMIZE_AFTER, id) = 0

\* C15: when Stage A succeeds on a record that is as it was created (no
\* metrics, not completed, 'processing'), the row then has every metric
\* and input_content set (the fetched page for a URL input, the stored
\* content otherwise), status 'processing' and completed_at null, and the
\* step added exactly one message: the first attempt of Stage B for the
\* same record id.
C15_StageASuccess ==
    [][\A id \in DOMAIN analysis :
          (/\ lastEvent'.name = ANALYZE
           /\ lastEvent'.record_id = id
           /\ lastEvent'.outcome = "ok"
           /\ analysis[id].status = "processing"
           /\ analysis[id].completed_at = None
           /\ analysis[id].issues = None)
              => /\ id \in DOMAIN analysis'
                 /\ MetricsSet(analysis'[id])
                 /\ analysis'[id].input_content # None
                 /\ IF Truthy(analysis[id].input_url)
                    THEN Val(analysis'[id].input_content) \in FetchedPages \ {<<>>}
                    ELSE analysis'[id].input_content = analysis[id].input_content
                 /\ analysis'[id].status = "processing"
                 /\ analysis'[id].completed_at = None
                 /\ queue' = queue (+) SetToBag({delay(OPTIMIZE_AFTER, id)})]_vars

\* Reached: Stage A succeeded for a URL input and stored the fetched page.
C15_Witness ==
    /\ lastEvent.name = ANALYZE
    /\ lastEvent.outcome = "ok"
    /\ "fetch" \in lastEvent.calls
    /\ EventRowExists
    /\ EventRow.input_content = Some(CleanedPage)
    /\ EventRow.status = "processing"
    /\ EventRow.completed_at = None

\* ---- the Scoring Engine's metrics as the claims state them
\* The symbols that end a token of the derived text: whitespace, and for
\* HTML input the markup between the text nodes.
SepsOf(input_type) ==
    IF input_type = "html" THEN Whitespace \cup Tags ELSE Whitespace

SameLetter(c, d) == c = d \/ {c, d} = {"a", "A"} \/ {c, d} = {"b", "B"}

TokenStarts(s, seps) ==
    {i \in 1..Len(s) : s[i] \notin seps /\ (i = 1 \/ s[i - 1] \in seps)}

\* The token of s that starts at i is kw, letter case apart.
TokenIs(s, seps, i, kw) ==
    /\ i + Len(kw) - 1 <= Len(s)
    /\ \A j \in 1..Len(kw) :
          s[i + j - 1] \notin seps /\ SameLetter(s[i + j - 1], kw[j])
    /\ i + Len(kw) > Len(s) \/ s[i + Len(kw)] \in seps

\* kw without the spaces around it.
Trimmed(kw) ==
    LET idx == {i \in 1..Len(kw) : kw[i] # Space}
    IN  IF idx = {} THEN <<>>
        ELSE SubSeq(kw, CHOOSE i \in idx : \A j \in idx : i <= j,
                        CHOOSE i \in idx : \A j \in idx : i >= j)

TotalTokens(args) == Cardinality(TokenStarts(args[1], SepsOf(args[3])))

ExactTokenMatches(args) ==
    Cardinality({i \in TokenStarts(args[1], SepsOf(args[3])) :
                    TokenIs(args[1], SepsOf(args[3]), i, Trimmed(args[2]))})

\* h hundredths is 100 * m / n rounded to two decimals.
IsRounded(h, m, n) ==
    /\ 2 * (h * n - 10000 * m) <= n
    /\ 2 * (10000 * m - h * n) <= n

DensityCalled == lastCall.method = "calculate_keyword_density"

\* C16: calculate_keyword_density is 100 * m / n rounded to two decimals,
\* n the number of whitespace-delimited tokens of the derived text and m
\* the number of them equal (letter case apart) to the trimmed keyword; 0
\* when there is no token; 2 of 3 gives 66.67, 3 of 5 gives 60.0, 1 of 1
\* gives 100.0.
C16_KeywordDensityFormula ==
    DensityCalled
        => /\ IF TotalTokens(lastCall.args) = 0
              THEN Val(lastCall.result) = 0
              ELSE IsRounded(Val(lastCall.result),
                             ExactTokenMatches(lastCall.args),
                             TotalTokens(lastCall.args))
           /\ lastCall.args = <<(<<"a", " ", "b", " ", "a">>), (<<"a">>), "content">>
                 => Val(lastCall.result) = 6667
           /\ lastCall.args = <<ThreeOfFive, (<<"b">>), "content">>
                 => Val(lastCall.result) = 6000
           /\ lastCall.args = <<(<<"a">>), (<<"a">>), "content">>
                 => Val(lastCall.result) = 10000

\* Reached: 2 words of 3 are the keyword, one of them written with a
\* capital, and the keyword is given with spaces around it.
C16_Witness ==
    /\ DensityCalled
    /\ lastCall.args = <<(<<"A", " ", "b", " ", "a">>), (<<" ", "a", " ">>), "content">>
    /\ lastCall.result = Some(6667)

\* C17: the keyword density lies between 0 and 100, and it is 0 when no
\* token of the content is the keyword.
C17_KeywordDensityRange ==
    DensityCalled
        => /\ Val(lastCall.result) >= 0
           /\ Val(lastCall.result) <= 10000
           /\ ExactTokenMatches(lastCall.args) = 0 => Val(lastCall.result) = 0

\* Reached: the keyword is part of the only word and is not a word itself.
C17_Witness ==
    /\ DensityCalled
    /\ lastCall.args = <<(<<"a", "a">>), (<<"a">>), "content">>
    /\ lastCall.result = Some(0)

Clamp(x, lo, hi) == IF x < lo THEN lo ELSE IF x > hi THEN hi ELSE x

\* 100 less 3, 7 and 15 for each key that sev maps to low, medium and high,
\* clamped to 0 .. 100.
ScoreBy(sev) ==
    Clamp(100 - 3 * Cardinality({k \in DOMAIN sev : sev[k] = "low"})
              - 7 * Cardinality({k \in DOMAIN sev : sev[k] = "medium"})
              - 15 * Cardinality({k \in DOMAIN sev : sev[k] = "high"}), 0, 100)

\* The severity the fixed rule set gives to an issue code, low for a code
\* it does not have.
RuleSeverity(code) ==
    CASE code = "no_h1_tag" -> "high"
      [] code \in {"missing_meta_description", "keyword_density_low",
                   "keyword_density_high", "readability_poor"} -> "medium"
      [] OTHER -> "low"

ScoreCalled == lastCall.method = "calculate_mock_seo_score"

\* C18 as stated: for every issue map, those with severities of their own
\* and with codes outside the rule set included, the score is 100 less the
\* penalty of the severity each issue carries, clamped to 0 .. 100.
C18_ScoreBySeverityOfIssue ==
    ScoreCalled
        => Val(lastCall.result)
              = ScoreBy([k \in DOMAIN lastCall.args[1] |->
                            lastCall.args[1][k].severity])

\* C18 as amended: for every issue map the score is 100 less, for each
\* issue code of the map, the penalty of the severity the fixed rule set
\* gives that code (low for a code outside it), clamped to 0 .. 100; the
\* severity the map's entry carries is not read.
C18_ScoreBySeverityOfCode ==
    ScoreCalled
        => Val(lastCall.result)
              = ScoreBy([k \in DOMAIN lastCall.args[1] |-> RuleSeverity(k)])

\* Reached: a map with a code outside the rule set marked high and the H1
\* rule marked low scores 100 - 3 - 15.
C18_Witness ==
    /\ ScoreCalled
    /\ lastCall.args[1] = ("custom" :> [severity |-> "high"])
                            @@ ("no_h1_tag" :> [severity |-> "low"])
    /\ lastCall.result = Some(82)

IssuesCalled == lastCall.method = "generate_issues"

\* C19: generate_issues returns keyword_density_low iff density < 0.5,
\* keyword_density_high iff density > 5, no_h1_tag iff the input is HTML
\* without H1, missing_meta_description iff it is HTML without a non-empty
\* meta description, missing_subheadings iff it is HTML with neither H2 nor
\* H3, readability_poor iff readability < 50; each code it returns carries
\* the severity of the rule set.
C19_IssueRules ==
    IssuesCalled
        => LET density     == lastCall.args[1]
               html        == lastCall.args[2] = "html"
               headings    == lastCall.args[3]
               meta        == lastCall.args[4]
               readability == lastCall.args[5]
               issues      == Val(lastCall.result)
           IN  /\ "keyword_density_low" \in DOMAIN issues <=> density < 50
               /\ "keyword_density_high" \in DOMAIN issues <=> density > 500
               /\ "no_h1_tag" \in DOMAIN issues
                     <=> (html /\ headings.h1 = <<>>)
               /\ "missing_meta_description" \in DOMAIN issues
                     <=> (html /\ meta = Some(FALSE))
               /\ "missing_subheadings" \in DOMAIN issues
                     <=> (html /\ headings.h2 = <<>> /\ headings.h3 = <<>>)
               /\ "readability_poor" \in DOMAIN issues <=> readability < 5000
               /\ DOMAIN issues \subseteq
                     {"keyword_density_low", "keyword_density_high", "no_h1_tag",
                      "missing_meta_description", "missing_subheadings",
                      "readability_poor"}
               /\ \A code \in DOMAIN issues :
                     issues[code].severity = RuleSeverity(code)

\* Reached: a page with an H1 and nothing else, density 5 and reading ease
\* 50, has the two issues of the missing parts only.
C19_Witness ==
    /\ IssuesCalled
    /\ lastCall.args = <<500, "html", [h1 |-> <<(<<"a">>)>>, h2 |-> <<>>, h3 |-> <<>>],
                         Some(FALSE), 5000>>
    /\ DOMAIN Val(lastCall.result)
          = {"missing_meta_description", "missing_subheadings"}

\* C20: generate_issues never returns keyword_density_low together with
\* keyword_density_high, and returns neither for a density of 0.5 to 5.
C20_DensityIssuesExclusive ==
    IssuesCalled
        => LET density == lastCall.args[1]
               issues  == DOMAIN Val(lastCall.result)
           IN  /\ ~("keyword_density_low" \in issues
                    /\ "keyword_density_high" \in issues)
               /\ (density >= 50 /\ density <= 500)
                     => /\ "keyword_density_low" \notin issues
                        /\ "keyword_density_high" \notin issues

\* Reached: plain content of density 2.5 that reads well has no issue.
C20_Witness ==
    /\ IssuesCalled
    /\ lastCall.args[1] = 250
    /\ lastCall.args[2] = "content"
    /\ Val(lastCall.result) = [k \in {} |-> <<>>]

Blank(o) == IsNone(o) \/ \A i \in 1..Len(Val(o)) : Val(o)[i] = Space

LowerOf(c) == CASE c = "A" -> "a" [] c = "B" -> "b" [] OTHER -> c

UpperOf(c) == CASE c = "a" -> "A" [] c = "b" -> "B" [] OTHER -> c

InitCalled == lastCall.method = "__init__"

\* C21: the constructor of the Scoring Engine fails when the content is
\* null, empty or only whitespace, when the keyword is, or when the input
\* kind (letter case and surrounding spaces apart) is neither html nor
\* content; the error is about the content if the content is bad, else
\* about the keyword if the keyword is bad, else about the input kind; a
\* failed construction yields no instance to compute a metric on, and the
\* construction succeeds in every other case.
C21_InvalidInputOrder ==
    InitCalled
        => LET content    == lastCall.args[1]
               keyword    == lastCall.args[2]
               input_type == lastCall.args[3]
               out        == Val(lastCall.result)
               badKind    == input_type \notin {"html", "content", "HTML", " Content "}
           IN  /\ out.raised = (IF Blank(content) THEN "content"
                                ELSE IF Blank(keyword) THEN "target_keyword"
                                ELSE IF badKind THEN "input_type"
                                ELSE "none")
               /\ out.raised # "none" <=> out.instance = None

\* Reached: content, keyword and input kind are all bad and the error is
\* about the content.
C21_Witness ==
    /\ InitCalled
    /\ lastCall.args = <<Some(<<" ">>), None, "invalid">>
    /\ Val(lastCall.result).raised = "content"

\* The scores of the Scoring Engine over every issue map.
ProducedScores == {calculate_mock_seo_score_with(issues) : issues \in IssueMaps}

\* C22: every seo_score the Scoring Engine produces, for every combination of
\* issues, and every seo_score saved on an Analysis record lies in 0 .. 100.
C22_SeoScoreRange ==
    /\ ProducedScores \subseteq 0..100
    /\ \A id \in DOMAIN analysis :
          analysis[id].seo_score # None => Val(analysis[id].seo_score) \in 0..100

\* Reached: a record holds a score that issues have lowered.
C22_Witness ==
    \E id \in DOMAIN analysis :
        /\ analysis[id].seo_score # None
        /\ Val(analysis[id].seo_score) \in 0..99

SendRequestCalled == lastCall.method = "_send_request"

\* The text has the form of a JSON value: an empty array, or an object of
\* members, spaces around it apart.
IsJsonText(raw) ==
    LET t == Trimmed(raw)
    IN  \/ t = <<"[", "]">>
        \/ /\ Len(t) >= 2
           /\ t[1] = "{" /\ t[Len(t)] = "}"
           /\ \A i \in 2..(Len(t) - 1) : t[i] \in Members

IsObjectText(raw) == IsJsonText(raw) /\ Trimmed(raw)[1] = "{"

\* The member of the object text that decides a key: the last one with it.
HasMember(raw, tokens) ==
    \E i \in 1..Len(raw) :
        /\ raw[i] \in tokens
        /\ \A j \in (i + 1)..Len(raw) :
              raw[j] \in Members => MemberKey(raw[j]) # MemberKey(raw[i])

Missing(o) == o = None \/ o = Some(<<>>)

\* C24: post_analysis_optimize called with null or empty content or keyword,
\* and optimize called with null or empty content or keyword or with no tone
\* or no target length, raise ValueError and send no request to the backend.
C24_MissingArgumentsSendNothing ==
    /\ lastCall.method = "post_analysis_optimize"
        => (Missing(lastCall.args[1]) \/ Missing(lastCall.args[2])
               => /\ Val(lastCall.result).raised = "ValueError"
                  /\ Val(lastCall.result).requests = 0)
    /\ lastCall.method = "optimize"
        => (\/ Missing(lastCall.args[1]) \/ Missing(lastCall.args[2])
            \/ lastCall.args[3] = "" \/ lastCall.args[4] = 0
               => /\ Val(lastCall.result).raised = "ValueError"
                  /\ Val(lastCall.result).requests = 0)

\* Reached: optimize called with everything but the tone.
C24_Witness ==
    /\ lastCall.method = "optimize"
    /\ lastCall.args = <<Some(PlainContent), Some(Keyword), "", 300>>
    /\ Val(lastCall.result).requests = 0

\* The create view has answered in this step.
Answered(view) == lastEvent'.name = view /\ lastEvent' # lastEvent

\* C25: the row the analysis create view inserts has exactly one of
\* input_url and input_content non-null; a request body that carries both
\* url and content, or neither, is answered 400, and the step that answers
\* it inserts no row, enqueues no task and leaves no enqueue pending.
C25_ExactlyOneInputAtCreation ==
    [][/\ nextId'.analysis # nextId.analysis
            => LET row == analysis'[nextId.analysis]
               IN  (row.input_url = None) # (row.input_content = None)
       /\ \A p \in posting' \ posting :
            p.name = ANALYZE => (p.data.url = None) # (p.data.content = None)
       /\ (/\ Answered(POST_ANALYSIS)
           /\ (Val(lastEvent'.results).url = None)
                 = (Val(lastEvent'.results).content = None))
            => /\ lastEvent'.outcome = "400"
               /\ analysis' = analysis
               /\ nextId' = nextId
               /\ queue' = queue
               /\ posting' = posting]_vars

\* Reached: a body with both url and content was answered 400.
C25_Witness ==
    /\ lastEvent.name = POST_ANALYSIS
    /\ lastEvent.outcome = "400"
    /\ Val(lastEvent.results).url # None
    /\ Val(lastEvent.results).content = Some(PlainContent)

FirstStage(view) == IF view = POST_OPTIMIZATION THEN OPTIMIZE ELSE ANALYZE

Lowered(str) == [i \in 1..Len(str) |-> LowerOf(str[i])]

Uppered(str) == [i \in 1..Len(str) |-> UpperOf(str[i])]

Padded(str) == <<Space>> \o str \o <<Space, Space>>

DensityOf(content, keyword, input_type) ==
    calculate_keyword_density(SEOAnalyzer(Some(content), Some(keyword), input_type))

DensityIssuesOf(content, keyword, input_type) ==
    DOMAIN generate_issues(SEOAnalyzer(Some(content), Some(keyword), input_type),
                           7000)
        \cap {"keyword_density_low", "keyword_density_high"}

\* C28: the keyword density of a content and a keyword, and the density
\* issue reported for them, are those of the content in upper case and in
\* lower case taken with the keyword as it is, in upper case, in lower case
\* and with spaces added before and after it; the keyword an instance
\* stores is the keyword given, trimmed and in lower case.
C28_KeywordCaseInsensitive ==
    /\ DensityCalled
        => LET content    == lastCall.args[1]
               keyword    == lastCall.args[2]
               input_type == lastCall.args[3]
           IN  \A c \in {Lowered(content), Uppered(content)},
                  k \in {keyword, Lowered(keyword), Uppered(keyword),
                         Padded(keyword)} :
                  /\ DensityOf(c, k, input_type) = Val(lastCall.result)
                  /\ DensityIssuesOf(c, k, input_type)
                        = DensityIssuesOf(content, keyword, input_type)
    /\ (InitCalled /\ Val(lastCall.result).raised = "none")
        => Val(Val(lastCall.result).instance).target_keyword
              = Lowered(Trimmed(Val(lastCall.args[2])))

\* Reached: the density of "A b a" for the keyword " a " is two of three.
C28_Witness ==
    /\ DensityCalled
    /\ lastCall.args = <<<<"A", " ", "b", " ", "a">>, <<" ", "a", " ">>, "content">>
    /\ Val(lastCall.result) = 6667

\* The executions of the named stages that hold the record between their
\* load and their end.
Executions(names, id) ==
    LET es == {e \in BagToSet(running) :
                  e.msg.name \in names /\ e.msg.record_id = id}
    IN  BagCardinality([e \in es |-> CopiesIn(e, running)])

\* C29: at any time at most one stage execution holds a record: Stage A and
\* Stage B of an Analysis record are never in flight together and no stage
\* of a record has two executions in flight, re-deliveries included.
C29_OneExecutionPerRecord ==
    \A id \in Ids :
        /\ Executions({ANALYZE, OPTIMIZE_AFTER}, id) <= 1
        /\ Executions({OPTIMIZE}, id) <= 1

\* The columns a stage assigns before it saves.
AssignedBy(name) ==
    CASE name = ANALYZE ->
            {"input_content", "word_count", "keyword_density", "readability_score",
             "avg_sentence_length", "seo_score", "issues", "status",
             "processing_time"}
      [] name = OPTIMIZE_AFTER ->
            {"optimized_content", "optimized_imporvements", "status", "completed_at"}
      [] name = OPTIMIZE ->
            {"optimized_content", "optimized_imporvements",
             "optimized_keyword_denisty", "status", "processing_time",
             "completed_at"}

\* C30: the save of a stage changes the record as it is at write time: every
\* column the stage does not assign keeps the value it has in the store when
\* the stage saves, so no write another execution committed since this one
\* loaded the record is undone.
C30_NoLostUpdate ==
    [][\A name \in TaskNames :
         (/\ lastEvent'.name = name
          /\ lastEvent'.outcome = "ok"
          /\ lastEvent'.record_id \in DOMAIN TableOf(name))
            => LET id     == lastEvent'.record_id
                   before == TableOf(name)[id]
                   after  == IF name = OPTIMIZE THEN optimization'[id]
                             ELSE analysis'[id]
               IN  \A column \in DOMAIN before \ AssignedBy(name) :
                      after[column] = before[column]]_vars

\* C31: the attempt of a stage that fails with its retries used up ends
\* normally, the failure recorded on the record: the exception of the
\* Content Fetcher, the Scoring Engine or the Rewrite Service does not leave
\* the handler.
C31_FinalFailureStaysInStage ==
    (/\ lastEvent.name \in TaskNames
     /\ lastEvent.error # "none"
     /\ lastEvent.retries = max_retries)
        => /\ lastEvent.outcome = "failed"
           /\ EventRowExists => EventRow.status = "failed"

\* C32: the request Stage B sends carries the content, the keyword, the
\* keyword density, the readability score, the average sentence length, the
\* word count and the issue map of the record as Stage A saved them,
\* whatever their values.
C32_RequestCarriesMetrics ==
    (lastEvent.name = OPTIMIZE_AFTER /\ lastEvent.request # None /\ EventRowExists)
        => LET sent == Val(lastEvent.request)
           IN  /\ sent.content = EventRow.input_content
               /\ sent.keyword = EventRow.target_keyword
               /\ sent.keyword_density = EventRow.keyword_density
               /\ sent.readability_score = EventRow.readability_score
               /\ sent.avg_sentence_length = EventRow.avg_sentence_length
               /\ sent.word_count = EventRow.word_count
               /\ sent.issues = EventRow.issues

\* Every row of the table but the one under id is as it was, and no other
\* row has appeared or gone.
OthersUnchanged(before, after, id) ==
    /\ DOMAIN after \ {id} = DOMAIN before \ {id}
    /\ \A k \in DOMAIN before \ {id} : after[k] = before[k]

\* C33: a step of a stage handler for record r of one table leaves every
\* other row of that table and every row of the other table as they were.
C33_OneRecordPerStage ==
    [][IF lastEvent'.name = OPTIMIZE
       THEN /\ analysis' = analysis
            /\ OthersUnchanged(optimization, optimization', lastEvent'.record_id)
       ELSE /\ optimization' = optimization
            /\ OthersUnchanged(analysis, analysis', lastEvent'.record_id)]_vars

\* Reached: Stage B completed Analysis record 2 while Analysis record 1 has
\* the metrics of its Stage A and the Optimization record is completed.
C33_Witness ==
    /\ lastEvent.name = OPTIMIZE_AFTER
    /\ lastEvent.record_id = 2
    /\ lastEvent.outcome = "ok"
    /\ analysis[2].status = "completed"
    /\ analysis[1].status = "processing"
    /\ analysis[1].seo_score # None
    /\ optimization[1].status = "completed"

\* The columns of the base record no stage assigns.
SameInputs(before, after) ==
    /\ after.target_keyword = before.target_keyword
    /\ after.created_at = before.created_at

C35_CompletedAtIffTerminal ==
    /\ \A id \in DOMAIN analysis :
        (analysis[id].completed_at # None) <=> (analysis[id].status \in Terminal)
    /\ \A id \in DOMAIN optimization :
        (optimization[id].completed_at # None)
            <=> (optimization[id].status \in Terminal)

\* The create request of the row is between its commit and its call of
\* delay.
BeingPosted(name, id) ==
    \E p \in posting : ViewOf(p.name) = ViewOf(name) /\ p.record_id = id

\* C36: every row with status 'processing' has a stage of its chain in the
\* queue (waiting or counting down to a retry) or running, or its create
\* request has not reached its call of delay yet.
C36_ProcessingHasTask ==
    /\ \A id \in DOMAIN analysis :
        analysis[id].status = "processing"
            => HasTask({ANALYZE, OPTIMIZE_AFTER}, id) \/ BeingPosted(ANALYZE, id)
    /\ \A id \in DOMAIN optimization :
        optimization[id].status = "processing"
            => HasTask({OPTIMIZE}, id) \/ BeingPosted(OPTIMIZE, id)

\* C37: every Optimization row with status 'completed' holds a rewritten
\* text that is not empty and not blank, and a keyword density of the
\* rewritten text between 0 and 100 (in hundredths).
C37_CompletedOptimizationHasContent ==
    \A id \in DOMAIN optimization :
        optimization[id].status = "completed"
            => /\ ~Blank(optimization[id].optimized_content)
               /\ optimization[id].optimized_keyword_denisty # None
               /\ Val(optimization[id].optimized_keyword_denisty) \in 0..10000

\* Reached: optimize_content_task received a null or blank rewritten text,
\* failed on it and left the row 'processing' with nothing of it saved.
C37_Witness ==
    /\ lastEvent.name = OPTIMIZE
    /\ lastEvent.error = "invalid"
    /\ lastEvent.results # None
    /\ Val(lastEvent.results).optimized_content \in {None, Some(<<Space>>)}
    /\ EventRowExists
    /\ EventRow.status = "processing"
    /\ EventRow.optimized_content = None

\* The keyword, once stripped, still holds whitespace: two words or more.
MultiWord(keyword) == \E i \in 1..Len(strip(keyword)) : IsSpace(strip(keyword)[i])

\* C38: for a keyword of two words or more calculate_keyword_density
\* returns 0 whatever the content, the issues of analyze hold
\* keyword_density_low, and the row optimize_content_task saves has
\* optimized_keyword_denisty 0.
C38_MultiWordKeywordDensityZero ==
    (lastCall.method \in {"calculate_keyword_density", "analyze",
                          "optimize_content_task"}
        /\ MultiWord(lastCall.args[2]))
        => CASE lastCall.method = "calculate_keyword_density"
                  -> lastCall.result = Some(0)
             [] lastCall.method = "analyze"
                  -> /\ Val(lastCall.result).keyword_density = 0
                     /\ "keyword_density_low" \in DOMAIN Val(lastCall.result).issues
             [] OTHER
                  -> Val(lastCall.result).optimized_keyword_denisty = Some(0)

\* Reached: the row of optimize_content_task for the keyword "a b" and the
\* rewritten text "a b".
C38_Witness ==
    /\ lastCall.method = "optimize_content_task"
    /\ lastCall.args = <<Rewrite1, <<"a", " ", "b">> >>
    /\ Val(lastCall.result).optimized_content = Some(Rewrite1)
    /\ Val(lastCall.result).status = "completed"

\* C39: every Analysis row made with a URL whose issues were written holds
\* missing_meta_description among them and a seo_score of at most 93.
C39_UrlRecordsMissMeta ==
    \A id \in DOMAIN analysis :
        (analysis[id].input_url # None /\ analysis[id].issues # None)
            => /\ "missing_meta_description" \in DOMAIN Val(analysis[id].issues)
               /\ Val(analysis[id].seo_score) <= 93

\* Reached: Stage A wrote the issues of a record whose URL served a page
\* with a description meta tag.
C39_Witness ==
    /\ lastEvent.name = ANALYZE
    /\ lastEvent.outcome = "ok"
    /\ EventRowExists
    /\ EventRow.input_url = Some(Url)
    /\ "<meta>" \in {MetaPage[i] : i \in 1..Len(MetaPage)}
    /\ EventRow.input_content = Some(extract_html(MetaPage))
    /\ EventRow.issues # None

====
